---------------------------- MODULE Spec2Model ----------------------------
(***************************************************************************)
(* A model of kimbal (pb866/kimai): the work-time balance of a Kimai time  *)
(* log.  Modelled are the day classifier (workcal.work_days and            *)
(* Kimai.work_days), the leave resolver (workcal.off_days and              *)
(* Kimai.vacation_days), the session normalizer (_convert_times) and the   *)
(* construction of a Kimai instance.                                       *)
(*                                                                         *)
(* Dates are proleptic Gregorian ordinals (datetime.date.toordinal()):     *)
(* ordinal 1 is Monday 0001-01-01, so weekday() = (ordinal + 6) % 7.       *)
(* Timestamps are minutes since ordinal 0, 00:00.                          *)
(***************************************************************************)
EXTENDS Integers, Sequences, FiniteSets, TLC

VARIABLES
    pc,        \* position of the call or construction in progress
    calendar,  \* the dates in holidays.Germany(prov='SN', years=[year])
    call,      \* arguments of the call in progress
    ret,       \* value returned by the call (NoReturn before it returns)
    self,      \* private fields of the Kimai instance (NoInstance: there is none)
    frame,     \* local variables of the function in progress
    log,       \* diagnostics emitted through logger, oldest first
    csv        \* the rows of the session file (data/export.csv), first row first

vars == <<pc, calendar, call, ret, self, frame, log, csv>>

---------------------------------------------------------------------------
(* Bounds of the model *)

\* The year of the log, and the first and last day of the window the model
\* draws its dates from, counted from 1 January (= 0): in 2022 day 103 is
\* Thursday 14 April and day 107 is Monday 18 April.
Year == 2022
FirstDay == 103
LastDay == 107
\* Most holidays in the window.
MaxHolidays == 1
\* Largest integer leave count (the smallest is -1).
MaxVacation == 2

\* The ordinal of 1 January of a year (datetime.date(year, 1, 1).toordinal()).
Jan1(year) ==
    LET y == year - 1
    IN  365 * y + (y \div 4) - (y \div 100) + (y \div 400) + 1

Days == (Jan1(Year) + FirstDay)..(Jan1(Year) + LastDay)
HolidaySets == {h \in SUBSET Days : Cardinality(h) <= MaxHolidays}
Vacations == -1..MaxVacation
Periods == [start : Days, end : Days]

\* No value returned yet, no Kimai instance, no function in its loop.
NoReturn == [fn |-> "none"]
NoInstance == [class |-> "none"]
NoFrame == [fn |-> "none"]
None == "None"
\* A private field no statement has assigned yet.
Unset == "Unset"

---------------------------------------------------------------------------
(* loader.Period *)

\* Period = namedtuple("Period", ["start", "end"], defaults=[1900-01-01, 2100-01-01])
DefaultStart == 693596
DefaultEnd == 766645
Period(start, end) == [start |-> start, end |-> end]
DefaultPeriod == Period(DefaultStart, DefaultEnd)

---------------------------------------------------------------------------
(* pandas and datetime primitives the code relies on *)

\* pd.date_range(start, end): the days from start to end, both included;
\* empty when start > end.
date_range(start, end) == {d \in start..end : TRUE}

\* DatetimeIndex.intersection
intersection(a, b) == a \cap b

\* datetime.weekday(): Monday = 0 ... Sunday = 6
weekday(day) == (day + 6) % 7

Min(S) == CHOOSE x \in S : \A y \in S : x <= y

---------------------------------------------------------------------------
(* workcal.work_days and Kimai.work_days *)

\* The threshold of `day.weekday() >= 5`.
FirstWeekendDay == 5

\* One pass of the loop body: counts = <<wdays, wends, hdays>>.
count_day_both(day, offdays, counts) ==
    LET h == IF day \in offdays THEN 1 ELSE 0
        e == IF weekday(day) >= FirstWeekendDay THEN 1 ELSE 0
        w == IF h = 0 /\ e = 0 THEN 1 ELSE 0
    IN  <<counts[1] + w, counts[2] + e, counts[3] + h>>

count_day_weekend_first(day, offdays, counts) ==
    IF weekday(day) >= FirstWeekendDay
    THEN <<counts[1], counts[2] + 1, counts[3]>>
    ELSE IF day \in offdays
         THEN <<counts[1], counts[2], counts[3] + 1>>
         ELSE <<counts[1] + 1, counts[2], counts[3]>>

count_day(day, offdays, counts) ==
    IF day \in offdays
    THEN <<counts[1], counts[2], counts[3] + 1>>
    ELSE IF weekday(day) >= FirstWeekendDay
         THEN <<counts[1], counts[2] + 1, counts[3]>>
         ELSE <<counts[1] + 1, counts[2], counts[3]>>

\* `for day in drange: ...` in ascending order of the index.
RECURSIVE classify(_, _, _)
classify(drange, offdays, counts) ==
    IF drange = {}
    THEN counts
    ELSE LET day == Min(drange)
         IN  classify(drange \ {day}, offdays, count_day(day, offdays, counts))

\* wdays, wends, hdays = -vacation, 0, 0
initial_counts_clamped(vacation) == <<IF vacation > 0 THEN 0 ELSE -vacation, 0, 0>>

initial_counts(vacation) == <<-vacation, 0, 0>>

restricted_range_ignored(start, end, restrict) == date_range(start, end)

\* pd.date_range(start, end).intersection(pd.date_range(restrict.start, restrict.end))
restricted_range(start, end, restrict) ==
    intersection(date_range(start, end), date_range(restrict.start, restrict.end))

\* workcal.work_days(start, end, year, vacation, restrict); offdays is
\* holidays.Germany(prov='SN', years=[year]).
work_days(start, end, offdays, vacation, restrict) ==
    classify(restricted_range(start, end, restrict), offdays, initial_counts(vacation))

Kimai_work_days_unrestricted(period, offdays, start, end, vacation, restrict_period) ==
    classify(date_range(start, end), offdays, initial_counts(vacation))

\* Kimai.work_days(self, start, end, vacation, restrict_period); period is
\* self.__period, offdays is holidays.Germany(prov='SN', years=[self.__year]).
Kimai_work_days(period, offdays, start, end, vacation, restrict_period) ==
    LET drange == IF restrict_period
                  THEN restricted_range(start, end, period)
                  ELSE date_range(start, end)
    IN  classify(drange, offdays, initial_counts(vacation))

---------------------------------------------------------------------------
(* The day classifier called on its own: every start, end, leave count,    *)
(* holiday set and restrict period of the bounds.                          *)

WDCalls == [start : Days, end : Days, vacation : Vacations,
            restricted : BOOLEAN, restrict : Periods]

WDInit ==
    /\ pc = "call"
    /\ self = NoInstance
    /\ frame = NoFrame
    /\ log = <<>>
    /\ csv = <<>>
    /\ calendar \in HolidaySets
    /\ call \in {c \in WDCalls :
                    ~c.restricted => c.restrict = Period(Jan1(Year) + FirstDay,
                                                        Jan1(Year) + LastDay)}
    /\ ret = NoReturn

\* workcal.work_days(start, end, year, vacation[, restrict])
WorkcalWorkDays ==
    /\ pc = "call"
    /\ ret' = [fn |-> "workcal.work_days",
               value |-> work_days(call.start, call.end, calendar, call.vacation,
                                   IF call.restricted THEN call.restrict
                                   ELSE DefaultPeriod)]
    /\ pc' = "done"
    /\ UNCHANGED <<calendar, call, self, frame, log, csv>>

\* Kimai.work_days(start, end, vacation, restrict_period) on an instance
\* whose period is call.restrict.
KimaiWorkDays ==
    /\ pc = "call"
    /\ ret' = [fn |-> "Kimai.work_days",
               value |-> Kimai_work_days(call.restrict, calendar, call.start, call.end,
                                         call.vacation, call.restricted)]
    /\ pc' = "done"
    /\ UNCHANGED <<calendar, call, self, frame, log, csv>>

WDNext == WorkcalWorkDays \/ KimaiWorkDays

SpecWD == WDInit /\ [][WDNext]_vars

---------------------------------------------------------------------------
(* File names and the file system *)

\* The file names and directories the model draws from; "./" is the
\* directory '.' as path.join writes it.
KimaiFileName == "export.csv"
LeaveFileNames == {"vacation.csv", "happiness.csv"}
Dirs == {"./", "data/"}
\* The files that exist (os.path.exists).
ExistingFiles == {"data/vacation.csv", "data/export.csv"}

\* '/' in filename
has_slash(filename) ==
    filename \in {d \o n : d \in Dirs, n \in LeaveFileNames \cup {KimaiFileName}}

path_exists(file) == file \in ExistingFiles

\* loader.filepath(filename, dir, always_return) and Kimai.__filepath:
\* the joined path, or FileNotFound for the FileNotFoundError raised.
FileNotFound == "FileNotFoundError"
filepath(filename, dir, always_return) ==
    LET file == IF has_slash(filename) THEN filename ELSE dir \o filename
    IN  IF always_return \/ path_exists(file) THEN file ELSE FileNotFound

---------------------------------------------------------------------------
(* The leave source and the rows of a leave file *)

\* Most rows of a leave file.
MaxLeaveRows == 2

\* The leave source: an integer, or the name of a file.
IntSource(n) == [kind |-> "int", n |-> n]
StrSource(name) == [kind |-> "str", name |-> name]
Sources == {IntSource(n) : n \in Vacations} \cup {StrSource(f) : f \in LeaveFileNames}

\* isinstance(off, int)
is_int(off) == off.kind = "int"

\* The date column of a row after data.date.split('-') and pd.to_datetime:
\* one date, or the two dates of a range, in the order written.
LeaveRecords == {<<d>> : d \in Days} \cup {<<d1, d2>> : d1 \in Days, d2 \in Days}
NoRow == <<>>

single_date_exclusive(date, restrict) ==
    IF restrict.start < date /\ date < restrict.end THEN 1 ELSE 0

\* `if dates[0] in pd.date_range(*restrict): offdays += 1`
single_date(date, restrict) ==
    IF date \in date_range(restrict.start, restrict.end) THEN 1 ELSE 0

off_days_row_calendar_days(dates, offdays, restrict) ==
    IF Len(dates) = 1
    THEN single_date(dates[1], restrict)
    ELSE Cardinality(restricted_range(dates[1], dates[2], restrict))

off_days_row_signed(dates, offdays, restrict) ==
    IF Len(dates) = 1
    THEN single_date(dates[1], restrict)
    ELSE IF dates[1] > dates[2]
         THEN dates[2] - dates[1]
         ELSE work_days(dates[1], dates[2], offdays, 0, restrict)[1]

\* The body of the loop of workcal.off_days: what one row adds to offdays.
off_days_row(dates, offdays, restrict) ==
    IF Len(dates) = 1
    THEN single_date(dates[1], restrict)
    ELSE work_days(dates[1], dates[2], offdays, 0, restrict)[1]

\* The body of the loop of Kimai.vacation_days: what one row adds to
\* self.__vacdays.
vacation_days_row(dates, offdays, period) ==
    IF Len(dates) = 1
    THEN single_date(dates[1], period)
    ELSE Kimai_work_days(period, offdays, dates[1], dates[2], 0, TRUE)[1]

---------------------------------------------------------------------------
(* The Kimai instance *)

KimaiFields == {"file", "year", "period", "vacdays", "vacfile", "workdays",
                "weekenddays", "holidays", "workinghours", "workingtimes",
                "workedtimes", "workedhours", "balance", "timedifference"}

\* An instance before __init__ has assigned anything.
NewKimai == [f \in KimaiFields |-> Unset]

vacation_number_keeps_file(obj, n) == [obj EXCEPT !.vacdays = n]

\* Kimai.__vacation_number(n)
vacation_number(obj, n) == [obj EXCEPT !.vacdays = n, !.vacfile = None]

vacation_not_found_one_day(obj) == vacation_number(obj, 1)

\* `return self.__vacation_number(0)` of vacation_days for a file that does
\* not exist.
vacation_not_found(obj) == vacation_number(obj, 0)

\* Where Kimai.vacation_days returns to: line 48 of __init__, or the caller
\* of the public method on a constructed instance.
AfterVacationDays == IF call.caller = "__init__" THEN "working_hours" ELSE "constructed"

Warning(msg) == [level |-> "WARNING", msg |-> msg]

---------------------------------------------------------------------------
(* workcal.off_days(year, off, dir, restrict) *)

\* `return 0, None` of off_days for a file that does not exist.
not_found(file) == <<0, None>>

\* `if isinstance(off, int): return off, None`
OffDaysInt ==
    /\ pc = "off_days"
    /\ is_int(call.off)
    /\ ret' = [fn |-> "workcal.off_days", value |-> <<call.off.n, None>>]
    /\ pc' = "done"
    /\ UNCHANGED <<calendar, call, self, frame, log, csv>>

\* `except FileNotFoundError: logger.warning(...); return 0, None`
OffDaysNotFound ==
    /\ pc = "off_days"
    /\ ~is_int(call.off)
    /\ filepath(call.off.name, call.dir, FALSE) = FileNotFound
    /\ log' = Append(log, Warning("File not found. Off-days set to 0."))
    /\ ret' = [fn |-> "workcal.off_days", value |-> not_found(call.off.name)]
    /\ pc' = "done"
    /\ UNCHANGED <<calendar, call, self, frame, csv>>

\* `off_file = filepath(off, dir)`, `offdays = 0`, `pd.read_csv(off_file)`
OffDaysReadCsv ==
    /\ pc = "off_days"
    /\ ~is_int(call.off)
    /\ filepath(call.off.name, call.dir, FALSE) # FileNotFound
    /\ frame' = [fn |-> "workcal.off_days",
                 off_file |-> filepath(call.off.name, call.dir, FALSE),
                 offdays |-> 0, index |-> 0, data |-> NoRow]
    /\ pc' = "off_days_rows"
    /\ UNCHANGED <<calendar, call, ret, self, log, csv>>

\* One pass of `for index, data in offdata.iterrows()`; the rows of the
\* file are drawn as the loop reaches them.
OffDaysRow ==
    /\ pc = "off_days_rows"
    /\ frame.index < MaxLeaveRows
    /\ \E dates \in LeaveRecords :
           frame' = [frame EXCEPT
                         !.index = @ + 1,
                         !.data = dates,
                         !.offdays = @ + off_days_row(dates, calendar, call.restrict)]
    /\ UNCHANGED <<pc, calendar, call, ret, self, log, csv>>

\* `return offdays, off_file` after the last row
OffDaysReturn ==
    /\ pc = "off_days_rows"
    /\ ret' = [fn |-> "workcal.off_days", value |-> <<frame.offdays, frame.off_file>>]
    /\ frame' = NoFrame
    /\ pc' = "done"
    /\ UNCHANGED <<calendar, call, self, log, csv>>

---------------------------------------------------------------------------
(* Kimai.vacation_days(vacation, dir) *)

\* `if isinstance(vacation, int): return self.__vacation_number(vacation)`
VacationDaysInt ==
    /\ pc = "vacation_days"
    /\ is_int(call.off)
    /\ self' = vacation_number(self, call.off.n)
    /\ ret' = [fn |-> "Kimai.vacation_days", value |-> call.off.n]
    /\ pc' = AfterVacationDays
    /\ UNCHANGED <<calendar, call, frame, log, csv>>

\* `except FileNotFoundError: logger.warning(...); return self.__vacation_number(0)`
VacationDaysNotFound ==
    /\ pc = "vacation_days"
    /\ ~is_int(call.off)
    /\ filepath(call.off.name, call.dir, FALSE) = FileNotFound
    /\ log' = Append(log, Warning("File not found. Vacation set to 0."))
    /\ self' = vacation_not_found(self)
    /\ ret' = [fn |-> "Kimai.vacation_days", value |-> vacation_not_found(self).vacdays]
    /\ pc' = AfterVacationDays
    /\ UNCHANGED <<calendar, call, frame, csv>>

\* `self.__vacfile = self.__filepath(vacation, dir)`, `self.__vacdays = 0`,
\* `pd.read_csv(self.__vacfile)`
VacationDaysReadCsv ==
    /\ pc = "vacation_days"
    /\ ~is_int(call.off)
    /\ filepath(call.off.name, call.dir, FALSE) # FileNotFound
    /\ self' = [self EXCEPT !.vacfile = filepath(call.off.name, call.dir, FALSE),
                            !.vacdays = 0]
    /\ frame' = [fn |-> "Kimai.vacation_days", index |-> 0, data |-> NoRow,
                 caller |-> frame]
    /\ pc' = "vacation_days_rows"
    /\ UNCHANGED <<calendar, call, ret, log, csv>>

\* One pass of `for index, data in vacdata.iterrows()`
VacationDaysRow ==
    /\ pc = "vacation_days_rows"
    /\ frame.index < MaxLeaveRows
    /\ \E dates \in LeaveRecords :
           /\ frame' = [frame EXCEPT !.index = @ + 1, !.data = dates]
           /\ self' = [self EXCEPT
                           !.vacdays = @ + vacation_days_row(dates, calendar, self.period)]
    /\ UNCHANGED <<pc, calendar, call, ret, log, csv>>

\* `return self.__vacdays` after the last row
VacationDaysReturn ==
    /\ pc = "vacation_days_rows"
    /\ ret' = [fn |-> "Kimai.vacation_days", value |-> self.vacdays]
    /\ frame' = frame.caller
    /\ pc' = AfterVacationDays
    /\ UNCHANGED <<calendar, call, self, log, csv>>

---------------------------------------------------------------------------
(* The leave resolver called on its own: workcal.off_days, and             *)
(* Kimai.vacation_days as __init__ calls it (line 47) on the instance whose *)
(* period _convert_times has set.                                          *)

OffCalls == [off : Sources, dir : Dirs, restrict : Periods, caller : {"__init__"}]

OffInit ==
    /\ pc \in {"off_days", "vacation_days"}
    /\ calendar \in HolidaySets
    /\ call \in OffCalls
    /\ ret = NoReturn
    /\ self = IF pc = "vacation_days"
              THEN [NewKimai EXCEPT !.file = "data/export.csv",
                                    !.year = Year,
                                    !.period = call.restrict]
              ELSE NoInstance
    /\ frame = NoFrame
    /\ log = <<>>
    /\ csv = <<>>

OffNext ==
    \/ OffDaysInt
    \/ OffDaysNotFound
    \/ OffDaysReadCsv
    \/ OffDaysRow
    \/ OffDaysReturn
    \/ VacationDaysInt
    \/ VacationDaysNotFound
    \/ VacationDaysReadCsv
    \/ VacationDaysRow
    \/ VacationDaysReturn

SpecOff == OffInit /\ [][OffNext]_vars

---------------------------------------------------------------------------
(* The session table and Kimai._convert_times (TimeLog._convert_times)     *)

\* Most rows of the session file.
MaxRows == 2

\* The days sessions are logged on: the weekdays of the window, as the Date
\* column writes them (day and month, here the day of the year).
SessionDates == {o \in FirstDay..LastDay : weekday(Jan1(Year) + o) < 5}

\* The In, Out and Time columns of the rows: a day session whose hours are
\* not its length, two sessions over midnight, and an empty session.
Sessions ==
    { [In |-> <<8, 0>>,  Out |-> <<23, 30>>, Time |-> 8],
      [In |-> <<22, 0>>, Out |-> <<2, 0>>,   Time |-> 8],
      [In |-> <<22, 0>>, Out |-> <<2, 0>>,   Time |-> 4],
      [In |-> <<8, 0>>,  Out |-> <<8, 0>>,   Time |-> 0] }

Rows == {[Date |-> d, In |-> k.In, Out |-> k.Out, Time |-> k.Time] :
             d \in SessionDates, k \in Sessions}

SeqsUpTo(S, n) == UNION {[1..k -> S] : k \in 0..n}
Tables == SeqsUpTo(Rows, MaxRows)

MinutesPerDay == 24 * 60

\* pd.to_datetime(Date + str(year) + " " + clock, dayfirst=True): minutes
\* since ordinal 0, 00:00.
to_datetime(date, year, clock) ==
    (Jan1(year) + date) * MinutesPerDay + clock[1] * 60 + clock[2]

\* Timestamp.date()
date_of(timestamp) == timestamp \div MinutesPerDay

timedelta_hours_as_minutes(n) == n

\* dt.timedelta(days=n), dt.timedelta(hours=n), in minutes
timedelta_days(n) == n * MinutesPerDay
timedelta_hours(n) == n * 60

correct_end_on_equal(start, end) ==
    IF start >= end THEN end + timedelta_days(1) ELSE end

\* `if start[i] > end[i]: end[i] += dt.timedelta(days=1)`
correct_end(start, end) ==
    IF start > end THEN end + timedelta_days(1) ELSE end

table_period_after_correction(df, year) ==
    LET start == to_datetime(df[1].Date, year, df[1].In)
        end == to_datetime(df[1].Date, year, df[1].Out)
    IN  Period(date_of(to_datetime(df[Len(df)].Date, year, df[Len(df)].In)),
               date_of(IF start > end THEN end + timedelta_days(1) ELSE end))

\* The Period of the table: date of the last start, date of the first end,
\* taken before the ends are corrected.
table_period(df, year) ==
    Period(date_of(to_datetime(df[Len(df)].Date, year, df[Len(df)].In)),
           date_of(to_datetime(df[1].Date, year, df[1].Out)))

\* The DataFrame _convert_times builds.
convert_times(df, year) ==
    [i \in 1..Len(df) |->
        LET start == to_datetime(df[i].Date, year, df[i].In)
            end == correct_end(start, to_datetime(df[i].Date, year, df[i].Out))
        IN  [start |-> start, end |-> end, duration |-> end - start,
             hours |-> df[i].Time]]

---------------------------------------------------------------------------
(* Kimai.__init__(file, dir, year, vacation) *)

\* `self.__workinghours = 8*wdays`
HoursPerDay == 8

\* sum(column, zero)
RECURSIVE sum(_, _)
sum(column, zero) ==
    IF column = <<>> THEN zero ELSE sum(Tail(column), zero + Head(column))

Column(df, name) == [i \in 1..Len(df) |-> df[i][name]]

Raised(error) == [fn |-> "Kimai.__init__", raised |-> error]

\* _read_kimai: `self.__file = self.__filepath(file, dir)`, `pd.read_csv`
ReadKimai ==
    /\ pc = "read_kimai"
    /\ filepath(call.file, call.dir, FALSE) # FileNotFound
    /\ self' = [self EXCEPT !.file = filepath(call.file, call.dir, FALSE)]
    /\ frame' = [fn |-> "Kimai.__init__", rawdata |-> csv, data |-> <<>>]
    /\ pc' = "convert_times"
    /\ UNCHANGED <<calendar, call, ret, log, csv>>

\* _read_kimai: the FileNotFoundError of __filepath leaves __init__
ReadKimaiNotFound ==
    /\ pc = "read_kimai"
    /\ filepath(call.file, call.dir, FALSE) = FileNotFound
    /\ ret' = Raised(FileNotFound)
    /\ pc' = "raised"
    /\ UNCHANGED <<calendar, call, self, frame, log, csv>>

\* _convert_times on a table with rows
ConvertTimes ==
    /\ pc = "convert_times"
    /\ Len(frame.rawdata) > 0
    /\ self' = [self EXCEPT !.period = table_period(frame.rawdata, call.year),
                            !.year = call.year]
    /\ frame' = [frame EXCEPT !.data = convert_times(frame.rawdata, call.year)]
    /\ pc' = "vacation_days"
    /\ UNCHANGED <<calendar, call, ret, log, csv>>

\* _convert_times on a table without rows: start.iloc[-1] raises IndexError
ConvertTimesEmpty ==
    /\ pc = "convert_times"
    /\ Len(frame.rawdata) = 0
    /\ ret' = Raised("IndexError")
    /\ pc' = "raised"
    /\ UNCHANGED <<calendar, call, self, frame, log, csv>>

\* __working_hours: the day counts and the demand of a period and a leave
\* count, as the fields it assigns.
working_hours(period, offdays, vacdays) ==
    LET counts == Kimai_work_days(period, offdays, period.start, period.end,
                                  vacdays, FALSE)
    IN  [workdays |-> counts[1],
         weekenddays |-> counts[2],
         holidays |-> counts[3],
         workinghours |-> HoursPerDay * counts[1],
         workingtimes |-> timedelta_hours(HoursPerDay * counts[1])]

compile_hours_from_duration(data, workinghours, workingtimes) ==
    LET workedtimes == sum(Column(data, "duration"), 0)
        workedhours == workedtimes \div 60
    IN  [workedtimes |-> workedtimes,
         workedhours |-> workedhours,
         balance |-> workedhours - workinghours,
         timedifference |-> workedtimes - workingtimes]

\* __compile_hours(data): the totals and balances, as the fields it assigns.
compile_hours(data, workinghours, workingtimes) ==
    LET workedtimes == sum(Column(data, "duration"), 0)
        workedhours == sum(Column(data, "hours"), 0)
    IN  [workedtimes |-> workedtimes,
         workedhours |-> workedhours,
         balance |-> workedhours - workinghours,
         timedifference |-> workedtimes - workingtimes]

\* __working_hours
WorkingHours ==
    /\ pc = "working_hours"
    /\ LET wh == working_hours(self.period, calendar, self.vacdays)
       IN  self' = [self EXCEPT
                        !.workdays = wh.workdays,
                        !.weekenddays = wh.weekenddays,
                        !.holidays = wh.holidays,
                        !.workinghours = wh.workinghours,
                        !.workingtimes = wh.workingtimes]
    /\ pc' = "compile_hours"
    /\ UNCHANGED <<calendar, call, ret, frame, log, csv>>

\* __compile_hours(data), then __init__ returns
CompileHours ==
    /\ pc = "compile_hours"
    /\ LET ch == compile_hours(frame.data, self.workinghours, self.workingtimes)
       IN  self' = [self EXCEPT
                        !.workedtimes = ch.workedtimes,
                        !.workedhours = ch.workedhours,
                        !.balance = ch.balance,
                        !.timedifference = ch.timedifference]
    /\ frame' = NoFrame
    /\ ret' = [fn |-> "Kimai.__init__", value |-> None]
    /\ pc' = "constructed"
    /\ UNCHANGED <<calendar, call, log, csv>>

KimaiCalls == [file : {KimaiFileName}, dir : Dirs, year : {Year}, off : Sources,
               caller : {"__init__"}]

\* Kimai(file, dir, year, vacation) is called.
Init ==
    /\ pc = "read_kimai"
    /\ calendar \in HolidaySets
    /\ call \in KimaiCalls
    /\ csv \in Tables
    /\ ret = NoReturn
    /\ self = NewKimai
    /\ frame = NoFrame
    /\ log = <<>>

Next ==
    \/ ReadKimai
    \/ ReadKimaiNotFound
    \/ ConvertTimes
    \/ ConvertTimesEmpty
    \/ VacationDaysInt
    \/ VacationDaysNotFound
    \/ VacationDaysReadCsv
    \/ VacationDaysRow
    \/ VacationDaysReturn
    \/ WorkingHours
    \/ CompileHours

Spec == Init /\ [][Next]_vars

---------------------------------------------------------------------------
(* Kimai.__format_timedelta(td); td is a datetime.timedelta of whole       *)
(* seconds, here the number of seconds.                                    *)

\* Largest |td| in hours the model draws from.
MaxHours == 50

\* The durations formatted: the whole hours up to MaxHours either side of
\* zero, and one second before and after each.
Timedeltas == {h * 3600 + j : h \in (-MaxHours)..MaxHours, j \in {-1, 0, 1}}

SecondsPerDay == 24 * 3600
CalendarDaySeconds == SecondsPerDay

\* `8*3600`: the seconds of a work day
WorkDaySeconds == 8 * 3600
\* `3*td.days`: the work days of 8 hours in a calendar day
WorkDaysPerDay == 3

\* timedelta.days and timedelta.seconds of a normalized timedelta:
\* 0 <= seconds < 86400, days negative for a negative timedelta.
td_days(td) == td \div SecondsPerDay
td_seconds(td) == td % SecondsPerDay

\* divmod(a, b)
divmod(a, b) == <<a \div b, a % b>>

\* str(dt.timedelta(days, seconds)): "[D day[s], ]H:MM:SS", as the numbers
\* it prints; days = 0 stands for the form without the day part.
str_timedelta(days, seconds) ==
    LET total == days * SecondsPerDay + seconds
    IN  [days |-> td_days(total),
         hours |-> td_seconds(total) \div 3600,
         minutes |-> (td_seconds(total) % 3600) \div 60,
         seconds |-> td_seconds(total) % 60]

sign_minus_at_zero(td) == IF td <= 0 THEN "-" ELSE "+"

\* `sign = "-" if td < dt.timedelta(0) else "+"`
sign(td) == IF td < 0 THEN "-" ELSE "+"

\* Kimai.__format_timedelta(td): the sign and the printed timedelta
format_timedelta(td) ==
    LET abs == IF td < 0 THEN td * (-1) ELSE td
        dm == divmod(td_seconds(abs), WorkDaySeconds)
        wdays == WorkDaysPerDay * td_days(abs) + dm[1]
    IN  [sign |-> sign(td), str |-> str_timedelta(wdays, dm[2])]

\* A duration is handed to __format_timedelta.
FmtInit ==
    /\ pc = "format_timedelta"
    /\ call \in [td : Timedeltas]
    /\ calendar = {}
    /\ ret = NoReturn
    /\ self = NoInstance
    /\ frame = NoFrame
    /\ log = <<>>
    /\ csv = <<>>

FormatTimedelta ==
    /\ pc = "format_timedelta"
    /\ ret' = [fn |-> "Kimai.__format_timedelta", value |-> format_timedelta(call.td)]
    /\ pc' = "done"
    /\ UNCHANGED <<calendar, call, self, frame, log, csv>>

FmtNext == FormatTimedelta

SpecFmt == FmtInit /\ [][FmtNext]_vars

---------------------------------------------------------------------------
(* The leave resolver in both places it is used: workcal.off_days called   *)
(* on its own, and Kimai.vacation_days within the construction of a Kimai  *)
(* instance.                                                               *)

LeaveInit == (OffInit /\ pc = "off_days") \/ Init

LeaveNext ==
    \/ OffDaysInt
    \/ OffDaysNotFound
    \/ OffDaysReadCsv
    \/ OffDaysRow
    \/ OffDaysReturn
    \/ Next

SpecLeave == LeaveInit /\ [][LeaveNext]_vars

---------------------------------------------------------------------------
(* loader.TimeLog(file, dir, year) and dataimport.TimeLog(file, dir, year) *)

TimeLogClasses == {"loader.TimeLog", "dataimport.TimeLog"}

\* A TimeLog before __init__ has assigned anything.
NewTimeLog(class) ==
    [class |-> class, file |-> Unset, year |-> Unset, period |-> Unset, data |-> Unset]

Error(msg) == [level |-> "ERROR", msg |-> msg]

\* An exception that leaves fn and reaches its caller.
RaisedBy(fn, error) == [fn |-> fn, raised |-> error]

\* `exit(44)`
ExitStatus == 44

\* loader.TimeLog.__init__ line 61: `self.__year = year` before the file is
\* read; dataimport.TimeLog sets the year in _convert_times.
year_before_read(obj, year) ==
    IF obj.class = "loader.TimeLog" THEN [obj EXCEPT !.year = year] ELSE obj

\* _read_kimai: `self.__file = filepath(file, dir)`, `pd.read_csv`
TimeLogReadKimai ==
    /\ pc = "TimeLog.read_kimai"
    /\ filepath(call.file, call.dir, FALSE) # FileNotFound
    /\ self' = [year_before_read(self, call.year) EXCEPT
                    !.file = filepath(call.file, call.dir, FALSE)]
    /\ frame' = [fn |-> call.class, rawdata |-> csv]
    /\ pc' = "TimeLog.convert_times"
    /\ UNCHANGED <<calendar, call, ret, log, csv>>

\* loader.TimeLog._read_kimai: `except FileNotFoundError: logger.error(...); exit(44)`
LoaderReadKimaiNotFound ==
    /\ pc = "TimeLog.read_kimai"
    /\ call.class = "loader.TimeLog"
    /\ filepath(call.file, call.dir, FALSE) = FileNotFound
    /\ self' = year_before_read(self, call.year)
    /\ log' = Append(log, Error("Data file with Kimai time log not found."))
    /\ ret' = [fn |-> "sys.exit", status |-> ExitStatus]
    /\ pc' = "exited"
    /\ UNCHANGED <<calendar, call, frame, csv>>

\* dataimport.TimeLog._read_kimai: `except FileNotFoundError: logger.error(...)`,
\* then `pd.read_csv(self.__kimai_file, ...)` reads the attribute that was
\* never assigned: AttributeError.
DataimportReadKimaiNotFound ==
    /\ pc = "TimeLog.read_kimai"
    /\ call.class = "dataimport.TimeLog"
    /\ filepath(call.file, call.dir, FALSE) = FileNotFound
    /\ log' = Append(log, Error("Data file with Kimai time log not found."))
    /\ ret' = RaisedBy("dataimport.TimeLog.__init__", "AttributeError")
    /\ pc' = "raised"
    /\ UNCHANGED <<calendar, call, self, frame, csv>>

\* _convert_times on a table with rows, then __init__ returns
TimeLogConvertTimes ==
    /\ pc = "TimeLog.convert_times"
    /\ Len(frame.rawdata) > 0
    /\ self' = [self EXCEPT !.period = table_period(frame.rawdata, call.year),
                            !.year = call.year,
                            !.data = convert_times(frame.rawdata, call.year)]
    /\ frame' = NoFrame
    /\ ret' = [fn |-> call.class, value |-> None]
    /\ pc' = "loaded"
    /\ UNCHANGED <<calendar, call, log, csv>>

\* _convert_times on a table without rows: start.iloc[-1] raises IndexError
TimeLogConvertTimesEmpty ==
    /\ pc = "TimeLog.convert_times"
    /\ Len(frame.rawdata) = 0
    /\ ret' = RaisedBy(call.class, "IndexError")
    /\ pc' = "raised"
    /\ UNCHANGED <<calendar, call, self, frame, log, csv>>

---------------------------------------------------------------------------
(* Operations on a constructed Kimai and on a loaded TimeLog *)

\* Most diagnostics a run emits.
MaxLog == 1

\* A line written by print().
Stdout(msg) == [level |-> "STDOUT", msg |-> msg]

\* The values assigned to properties, by their type: a Period and an
\* integer (the setters do not store the value).
SetterValues == {"Period", "int"}

\* `value.start, value.end` of the period setters can be evaluated.
has_start_end(value) == value = "Period"

\* The properties of Kimai and the private field each one returns.
KimaiProperties == {"file", "vacation_file", "period", "year", "vacationdays",
                    "workdays", "weekenddays", "holidays", "workinghours",
                    "workingtimes", "workedhours", "workedtimes",
                    "timedifference", "balance"}
property_field(name) ==
    CASE name = "vacation_file" -> "vacfile"
      [] name = "vacationdays" -> "vacdays"
      [] name = "kimai_file" -> "file"
      [] name = "kimai_data" -> "data"
      [] OTHER -> name

\* The properties of loader.TimeLog (with those of TimeFrame) and of
\* dataimport.TimeLog.
TimeLogProperties(class) ==
    IF class = "loader.TimeLog"
    THEN {"year", "period", "file", "data"}
    ELSE {"kimai_data", "kimai_file", "period", "year"}

\* The exception a setter raises, None when it returns: the period setters
\* of main.py and dataimport.py format value.start and value.end; the
\* kimai_file and year setters of dataimport.py call inspect.stack(), and
\* dataimport.py does not import inspect.
setter_raises(class, name, value) ==
    CASE class = "loader.TimeLog" -> None
      [] class = "dataimport.TimeLog" /\ name \in {"kimai_file", "year"} -> "NameError"
      [] name = "period" /\ ~has_start_end(value) -> "AttributeError"
      [] OTHER -> None

\* The diagnostic of a setter that returns: printed by main.py and
\* dataimport.py, logged as a warning by loader.py.
setter_diagnostic(class) ==
    IF class = "loader.TimeLog"
    THEN Warning("Kimai values cannot be changed.")
    ELSE Stdout("Kimai values cannot be changed.")

\* A property of the Kimai instance is read.
KimaiGet ==
    /\ pc = "constructed"
    /\ \E name \in KimaiProperties :
           ret' = [fn |-> "Kimai.property", value |-> self[property_field(name)]]
    /\ UNCHANGED <<pc, calendar, call, self, frame, log, csv>>

\* A property of the Kimai instance is assigned: `kimai.<name> = value`
KimaiSet ==
    /\ pc = "constructed"
    /\ \E name \in KimaiProperties, value \in SetterValues :
           IF setter_raises("Kimai", name, value) # None
           THEN /\ ret' = RaisedBy("Kimai.setter", setter_raises("Kimai", name, value))
                /\ log' = log
           ELSE /\ Len(log) < MaxLog
                /\ log' = Append(log, setter_diagnostic("Kimai"))
                /\ ret' = [fn |-> "Kimai.setter", value |-> None]
    /\ UNCHANGED <<pc, calendar, call, self, frame, csv>>

\* Kimai.stats(): prints the summary
KimaiStats ==
    /\ pc = "constructed"
    /\ Len(log) < MaxLog
    /\ log' = Append(log, Stdout("Kimai Statistics"))
    /\ ret' = [fn |-> "Kimai.stats", value |-> None]
    /\ UNCHANGED <<pc, calendar, call, self, frame, csv>>

\* The dates Kimai.work_days is called with on a constructed instance.
PublicDays == {Jan1(Year) + FirstDay, Jan1(Year) + LastDay}

\* Kimai.work_days(start, end, vacation, restrict_period) on the constructed
\* instance
KimaiPublicWorkDays ==
    /\ pc = "constructed"
    /\ \E start \in PublicDays, end \in PublicDays, vacation \in {0, MaxVacation},
          restrict_period \in BOOLEAN :
           ret' = [fn |-> "Kimai.work_days",
                   value |-> Kimai_work_days(self.period, calendar, start, end,
                                             vacation, restrict_period)]
    /\ UNCHANGED <<pc, calendar, call, self, frame, log, csv>>

\* Kimai.vacation_days(vacation, dir) is called on the constructed instance;
\* the actions of vacation_days run it.
KimaiPublicVacationDays ==
    /\ pc = "constructed"
    /\ Len(log) < MaxLog
    /\ \E off \in Sources, dir \in Dirs :
           call' = [call EXCEPT !.off = off, !.dir = dir, !.caller = "public"]
    /\ ret' = NoReturn
    /\ pc' = "vacation_days"
    /\ UNCHANGED <<calendar, self, frame, log, csv>>

\* A property of the TimeLog is read.
TimeLogGet ==
    /\ pc = "loaded"
    /\ \E name \in TimeLogProperties(self.class) :
           ret' = [fn |-> "TimeLog.property", value |-> self[property_field(name)]]
    /\ UNCHANGED <<pc, calendar, call, self, frame, log, csv>>

\* A property of the TimeLog is assigned: `timelog.<name> = value`
TimeLogSet ==
    /\ pc = "loaded"
    /\ \E name \in TimeLogProperties(self.class), value \in SetterValues :
           IF setter_raises(self.class, name, value) # None
           THEN /\ ret' = RaisedBy("TimeLog.setter", setter_raises(self.class, name, value))
                /\ log' = log
           ELSE /\ Len(log) < MaxLog
                /\ log' = Append(log, setter_diagnostic(self.class))
                /\ ret' = [fn |-> "TimeLog.setter", value |-> None]
    /\ UNCHANGED <<pc, calendar, call, self, frame, csv>>

\* The session tables and holiday sets of the instances operated on: day
\* sessions only, and no holiday or the second day of the window (15 April
\* 2022, Good Friday).
PublicTables == {t \in Tables : \A i \in 1..Len(t) : t[i].In = <<8, 0>> /\ t[i].Time = 8}
PublicCalendars == {h \in HolidaySets : h \subseteq {Jan1(Year) + FirstDay + 1}}

TimeLogCalls == [class : TimeLogClasses, file : {KimaiFileName}, dir : Dirs, year : {Year}]

\* TimeLog(file, dir, year) is called.
TimeLogInit ==
    /\ pc = "TimeLog.read_kimai"
    /\ calendar = {}
    /\ call \in TimeLogCalls
    /\ csv \in Tables
    /\ ret = NoReturn
    /\ self = NewTimeLog(call.class)
    /\ frame = NoFrame
    /\ log = <<>>

\* Kimai(...) or TimeLog(...) is called.
PublicInit ==
    \/ Init /\ csv \in PublicTables /\ calendar \in PublicCalendars
    \/ TimeLogInit

PublicNext ==
    \/ Next
    \/ TimeLogReadKimai
    \/ LoaderReadKimaiNotFound
    \/ DataimportReadKimaiNotFound
    \/ TimeLogConvertTimes
    \/ TimeLogConvertTimesEmpty
    \/ KimaiGet
    \/ KimaiSet
    \/ KimaiStats
    \/ KimaiPublicWorkDays
    \/ KimaiPublicVacationDays
    \/ TimeLogGet
    \/ TimeLogSet

SpecPublic == PublicInit /\ [][PublicNext]_vars

---------------------------------------------------------------------------
(* The functions of workcal.py beside the methods of main.Kimai they were  *)
(* taken from: work_days and off_days, Kimai.work_days and                 *)
(* Kimai.vacation_days, called with the same arguments.                    *)

RefineInit == WDInit \/ OffInit

RefineNext == WDNext \/ OffNext

SpecRefine == RefineInit /\ [][RefineNext]_vars

---------------------------------------------------------------------------
(* Properties of the day classifier (SpecWD) *)

\* The days the call classifies: those of [start, end], and of the restrict
\* period when one is given.
ClassifiedDays ==
    {d \in Days : /\ call.start <= d /\ d <= call.end
                  /\ call.restricted => (call.restrict.start <= d /\ d <= call.restrict.end)}

\* Number of calendar days of the inclusive period [start, end].
CalendarDays(start, end) == IF start <= end THEN end - start + 1 ELSE 0

\* C1: called with zero leave on a period [start, end], the classifier
\* returns counts with work_days + weekend_days + holidays equal to the
\* number of calendar days of the period, whatever the holiday set.
C1_CountsPartitionPeriod ==
    (pc = "done" /\ call.vacation = 0 /\ ~call.restricted)
        => ret.value[1] + ret.value[2] + ret.value[3]
               = CalendarDays(call.start, call.end)

\* A zero-leave call on a period holding a work day, a weekend day and a
\* holiday has returned.
C1_Witness ==
    /\ pc = "done" /\ call.vacation = 0 /\ ~call.restricted
    /\ ret.value[1] > 0 /\ ret.value[2] > 0 /\ ret.value[3] > 0

\* C2: each classified day is labelled by strict precedence: a day of the
\* holiday set is a holiday (also on a Saturday or Sunday), otherwise a day
\* with weekday index >= 5 is a weekend day, otherwise it is a work day.
C2_StrictPrecedence ==
    pc = "done" =>
        LET H == {d \in ClassifiedDays : d \in calendar}
            E == {d \in ClassifiedDays : d \notin calendar /\ weekday(d) \in {5, 6}}
            W == {d \in ClassifiedDays : d \notin calendar /\ weekday(d) \in 0..4}
        IN  /\ ret.value[3] = Cardinality(H)
            /\ ret.value[2] = Cardinality(E)
            /\ ret.value[1] + call.vacation = Cardinality(W)

\* A call whose range holds a holiday falling on a Saturday or Sunday, and
\* a weekend day that is no holiday, has returned.
C2_Witness ==
    /\ pc = "done"
    /\ \E d \in ClassifiedDays : d \in calendar /\ weekday(d) >= 5
    /\ \E d \in ClassifiedDays : d \notin calendar /\ weekday(d) >= 5
    /\ ret.value[3] = 1

\* The classifier's result on the call's dates with zero leave.
ZeroLeaveResult ==
    IF ret.fn = "workcal.work_days"
    THEN work_days(call.start, call.end, calendar, 0,
                   IF call.restricted THEN call.restrict ELSE DefaultPeriod)
    ELSE Kimai_work_days(call.restrict, calendar, call.start, call.end, 0,
                         call.restricted)

\* C3: for every integer leave count v the work-day result is the zero-leave
\* work-day result minus v, the weekend and holiday counts do not depend on
\* v, and a v above the available work days gives a negative result (no
\* clamping to 0).
C3_LeaveIsSignedAdjustment ==
    pc = "done" =>
        /\ ret.value[1] = ZeroLeaveResult[1] - call.vacation
        /\ ret.value[2] = ZeroLeaveResult[2]
        /\ ret.value[3] = ZeroLeaveResult[3]
        /\ call.vacation > ZeroLeaveResult[1] => ret.value[1] < 0

\* A call with more leave than work days in a period that has a work day
\* has returned a negative work-day count.
C3_Witness ==
    /\ pc = "done"
    /\ ZeroLeaveResult[1] > 0
    /\ call.vacation > ZeroLeaveResult[1]
    /\ ret.value[1] < 0

\* C4: given a restrict period, the classifier classifies exactly the days
\* lying in both [start, end] and [restrict.start, restrict.end]; disjoint
\* ranges yield (-vacation, 0, 0).
C4_RestrictIsIntersection ==
    (pc = "done" /\ call.restricted) =>
        LET lo == IF call.start >= call.restrict.start THEN call.start
                  ELSE call.restrict.start
            hi == IF call.end <= call.restrict.end THEN call.end
                  ELSE call.restrict.end
        IN  /\ ret.value[1] + ret.value[2] + ret.value[3] + call.vacation
                   = CalendarDays(lo, hi)
            /\ ret.value = classify(lo..hi, calendar, <<-call.vacation, 0, 0>>)
            /\ lo > hi => ret.value = <<-call.vacation, 0, 0>>

\* A restricted call whose range reaches beyond the restrict period on both
\* sides has returned, with days classified.
C4_Witness ==
    /\ pc = "done" /\ call.restricted
    /\ call.start < call.restrict.start
    /\ call.restrict.end < call.end
    /\ call.restrict.start < call.restrict.end
    /\ ret.value[1] + call.vacation > 0

\* A restricted call on two disjoint non-empty ranges has returned.
C4_WitnessDisjoint ==
    /\ pc = "done" /\ call.restricted
    /\ call.start <= call.end /\ call.end < call.restrict.start
    /\ call.restrict.start <= call.restrict.end

---------------------------------------------------------------------------
(* Properties of the leave resolver *)

\* The resolver is in its loop over the rows of the leave file.
InRows == pc \in {"off_days_rows", "vacation_days_rows"}

\* The leave resolver has returned.
LeaveReturned == pc \in {"done", "working_hours"} /\ ret # NoReturn

\* The leave count so far: offdays of off_days, self.__vacdays of
\* vacation_days.
LeaveCount == IF pc = "off_days_rows" THEN frame.offdays ELSE self.vacdays

\* The period the leave is counted in.
LeavePeriod == IF self = NoInstance THEN call.restrict ELSE self.period

\* (leave count, origin) as returned by off_days and as stored by
\* vacation_days.
LeaveResult == IF self = NoInstance THEN ret.value ELSE <<self.vacdays, self.vacfile>>

\* A step of the loop: one more row has been counted.
RowStep == InRows /\ InRows' /\ frame'.index = frame.index + 1

\* The work days of the period: inside it, no weekend day, no holiday.
IsWorkDayOfPeriod(d) ==
    /\ LeavePeriod.start <= d /\ d <= LeavePeriod.end
    /\ weekday(d) < 5
    /\ d \notin calendar

\* C5: an integer leave source n (0 and negative n included) resolves to
\* exactly (n, no origin) without a file being read, for every period and
\* directory.
C5_IntegerSourceVerbatim ==
    is_int(call.off) =>
        /\ ~InRows
        /\ frame = NoFrame
        /\ log = <<>>
        /\ LeaveReturned =>
               /\ LeaveResult = <<call.off.n, None>>
               /\ self # NoInstance => ret.value = call.off.n

\* A negative integer source has been resolved by vacation_days.
C5_Witness ==
    /\ LeaveReturned /\ is_int(call.off) /\ call.off.n < 0
    /\ self # NoInstance /\ self.vacdays = call.off.n

\* C7: a row holding a single date adds 1 to the leave count if
\* period.start <= date <= period.end and 0 otherwise.
C7_SingleDateInclusive ==
    [][(RowStep /\ Len(frame'.data) = 1) =>
           LeaveCount' = LeaveCount +
               (IF LeavePeriod.start <= frame'.data[1] /\ frame'.data[1] <= LeavePeriod.end
                THEN 1 ELSE 0)]_vars

\* A single date equal to the end of a period of several days has been
\* counted as one leave day.
C7_Witness ==
    /\ InRows /\ frame.index = 1 /\ Len(frame.data) = 1
    /\ LeavePeriod.start < LeavePeriod.end
    /\ frame.data[1] = LeavePeriod.end
    /\ LeaveCount = 1

\* C8: a row holding a range D1-D2 adds the number of days of [D1, D2] and
\* of the period that are neither weekend days nor holidays; a range inside
\* the period made of non-holiday weekdays only adds its calendar days.
C8_RangeCountsWorkDays ==
    [][(RowStep /\ Len(frame'.data) = 2) =>
           LET D1 == frame'.data[1]
               D2 == frame'.data[2]
               added == LeaveCount' - LeaveCount
           IN  /\ added = Cardinality({d \in D1..D2 : IsWorkDayOfPeriod(d)})
               /\ (\A d \in D1..D2 : IsWorkDayOfPeriod(d))
                      => added = CalendarDays(D1, D2)]_vars

\* A range reaching beyond the period on both sides, with a weekend day and
\* a holiday of the period in it, has been counted.
C8_Witness ==
    /\ InRows /\ frame.index = 1 /\ Len(frame.data) = 2
    /\ frame.data[1] < LeavePeriod.start /\ LeavePeriod.end < frame.data[2]
    /\ \E d \in LeavePeriod.start..LeavePeriod.end : weekday(d) >= 5 /\ d \notin calendar
    /\ \E d \in LeavePeriod.start..LeavePeriod.end : d \in calendar
    /\ LeaveCount >= 1

\* The days a row covers.
RowDays(dates) == IF Len(dates) = 1 THEN {dates[1]} ELSE dates[1]..dates[2]

\* C9: every day the resolver counts as a leave day is a work day of the
\* period (inside the period, neither weekend day nor holiday), for
\* single-date rows as for range rows.
C9_LeaveDaysAreWorkDays ==
    [][RowStep =>
           LeaveCount' - LeaveCount
               = Cardinality({d \in RowDays(frame'.data) : IsWorkDayOfPeriod(d)})]_vars

\* The leave source names a file that does not exist.
MissingLeaveFile ==
    /\ ~is_int(call.off)
    /\ filepath(call.off.name, call.dir, FALSE) = FileNotFound

\* The days of the instance's period by class, leave not subtracted.
PeriodDays == self.period.start..self.period.end
PeriodHolidays == {d \in PeriodDays : d \in calendar}
PeriodWeekendDays == {d \in PeriodDays : d \notin calendar /\ weekday(d) >= 5}
PeriodWorkDays == {d \in PeriodDays : d \notin calendar /\ weekday(d) < 5}

\* C6: when the leave source names a file that does not exist, the resolver
\* emits a warning and returns leave count 0 with no origin, no exception
\* leaves it, and the construction goes on to the day counts, demanded hours
\* and balance of the integer leave source 0.
C6_MissingLeaveFileIsZeroLeave ==
    MissingLeaveFile =>
        /\ ~InRows
        /\ pc = "raised" => (log = <<>> /\ self.vacdays = Unset)
        /\ pc \in {"done", "working_hours", "compile_hours", "constructed"} =>
               /\ LeaveResult = <<0, None>>
               /\ Len(log) = 1 /\ log[1].level = "WARNING"
        /\ pc \in {"done", "working_hours"} =>
               ret.value = IF self = NoInstance THEN <<0, None>> ELSE 0
        /\ pc \in {"compile_hours", "constructed"} =>
               /\ self.workdays = Cardinality(PeriodWorkDays)
               /\ self.weekenddays = Cardinality(PeriodWeekendDays)
               /\ self.holidays = Cardinality(PeriodHolidays)
               /\ self.workinghours = 8 * Cardinality(PeriodWorkDays)
               /\ self.workingtimes = 8 * 60 * Cardinality(PeriodWorkDays)
        /\ pc = "constructed" =>
               /\ self.balance = self.workedhours - 8 * Cardinality(PeriodWorkDays)
               /\ self.timedifference
                      = self.workedtimes - 8 * 60 * Cardinality(PeriodWorkDays)

\* A Kimai instance has been constructed from a leave file that does not
\* exist, over a period with work days.
C6_Witness ==
    /\ pc = "constructed" /\ MissingLeaveFile
    /\ self.vacdays = 0 /\ self.workdays > 0
    /\ Len(log) = 1

---------------------------------------------------------------------------
(* Properties of the session normalizer *)

\* The locals of __init__ (rawdata, data), also while vacation_days runs.
InitFrame == IF frame.fn = "Kimai.vacation_days" THEN frame.caller ELSE frame

\* _convert_times has returned and __init__ still holds its result.
Converted ==
    pc \in {"vacation_days", "vacation_days_rows", "working_hours", "compile_hours"}

\* C10: for every row the normalizer adds exactly one calendar day to the
\* end when the raw start is later than the raw end and leaves the end as
\* it is otherwise (also when start = end), so end >= start and end - start
\* lies in [0, 24h): 08:00-23:30 is unchanged, 22:00-02:00 lasts 4 h.
C10_MidnightCorrection ==
    Converted =>
        LET df == InitFrame.rawdata
            data == InitFrame.data
        IN  /\ Len(data) = Len(df)
            /\ \A i \in 1..Len(df) :
                   LET rawstart == to_datetime(df[i].Date, call.year, df[i].In)
                       rawend == to_datetime(df[i].Date, call.year, df[i].Out)
                   IN  /\ data[i].start = rawstart
                       /\ rawstart > rawend => data[i].end = rawend + 24 * 60
                       /\ rawstart <= rawend => data[i].end = rawend
                       /\ data[i].end >= data[i].start
                       /\ data[i].duration = data[i].end - data[i].start
                       /\ data[i].duration \in 0..(24 * 60 - 1)
                       /\ (df[i].In = <<8, 0>> /\ df[i].Out = <<23, 30>>)
                              => data[i].end = rawend
                       /\ (df[i].In = <<22, 0>> /\ df[i].Out = <<2, 0>>)
                              => /\ data[i].duration = 4 * 60
                                 /\ date_of(data[i].end) = date_of(rawstart) + 1

\* A table with a session over midnight and a session whose start equals
\* its end has been normalized.
C10_Witness ==
    /\ pc = "vacation_days"
    /\ \E i \in 1..Len(frame.data) :
           /\ frame.rawdata[i].In = <<22, 0>> /\ frame.rawdata[i].Out = <<2, 0>>
           /\ frame.data[i].duration = 240
    /\ \E i \in 1..Len(frame.data) :
           /\ frame.rawdata[i].In = frame.rawdata[i].Out
           /\ frame.data[i].duration = 0


---------------------------------------------------------------------------
(* Properties of the period of the session table *)

\* _convert_times has set the period of the instance.
PeriodSet == Converted \/ pc = "constructed"

\* C11: the period of a session table starts on the date of the last row's
\* start and ends on the date of the first row's end as read from the file,
\* before the midnight correction: when the first row crosses midnight the
\* period still ends on that row's own date, not on the following day.
C11_PeriodFromLastAndFirstRow ==
    PeriodSet =>
        /\ self.period.start
               = date_of(to_datetime(csv[Len(csv)].Date, call.year, csv[Len(csv)].In))
        /\ self.period.end = date_of(to_datetime(csv[1].Date, call.year, csv[1].Out))
        /\ self.period.start = Jan1(call.year) + csv[Len(csv)].Date
        /\ self.period.end = Jan1(call.year) + csv[1].Date

\* The period has been taken from a table of two rows on different dates
\* whose first row crosses midnight.
C11_Witness ==
    /\ pc = "vacation_days" /\ Len(csv) = 2
    /\ csv[1].Date > csv[2].Date
    /\ csv[1].In = <<22, 0>> /\ csv[1].Out = <<2, 0>>
    /\ frame.data[1].end > frame.data[1].start
    /\ date_of(frame.data[1].end) = self.period.end + 1

\* C12: no period with start > end is produced from a session table: a
\* table whose rows are ordered oldest first is rejected with an error.
C12_NoInvertedPeriod ==
    /\ PeriodSet => self.period.start <= self.period.end
    /\ (Len(csv) > 1 /\ csv[1].Date < csv[Len(csv)].Date) => ~PeriodSet

---------------------------------------------------------------------------
(* Properties of the balance *)

\* C13: after construction the demanded hours are 8 times the work days of
\* the period less the leave days (each leave day lowers the demand by 8
\* hours), the demanded duration is that number of hours, the balance hours
\* are worked hours minus demanded hours, and the balance duration is
\* worked duration minus demanded duration.
C13_DemandAndBalance ==
    pc = "constructed" =>
        /\ self.workdays = Cardinality(PeriodWorkDays) - self.vacdays
        /\ self.workinghours = 8 * self.workdays
        /\ self.workinghours = 8 * Cardinality(PeriodWorkDays) - 8 * self.vacdays
        /\ self.workingtimes = self.workinghours * 60
        /\ self.balance = self.workedhours - self.workinghours
        /\ self.timedifference = self.workedtimes - self.workingtimes

\* An instance has been constructed with leave days in a period with more
\* work days than leave days, from sessions whose hours are not their length.
C13_Witness ==
    /\ pc = "constructed"
    /\ self.vacdays > 0 /\ self.workdays > 0
    /\ self.workedhours > 0
    /\ self.workedtimes # self.workedhours * 60

\* What the construction stores as totals and balances for a session table,
\* a holiday set and a leave count.
Totals(df, year, offdays, vacdays) ==
    LET wh == working_hours(table_period(df, year), offdays, vacdays)
    IN  compile_hours(convert_times(df, year), wh.workinghours, wh.workingtimes)

\* Tables with the dates and hours of df, and with the dates and clock
\* times of df.
SameDatesAndHours(df) ==
    {t \in Tables : /\ Len(t) = Len(df)
                    /\ \A i \in 1..Len(df) :
                           t[i].Date = df[i].Date /\ t[i].Time = df[i].Time}
SameDatesAndClocks(df) ==
    {t \in Tables : /\ Len(t) = Len(df)
                    /\ \A i \in 1..Len(df) :
                           /\ t[i].Date = df[i].Date
                           /\ t[i].In = df[i].In /\ t[i].Out = df[i].Out}

\* C14: worked hours are the sum of the rows' hours and worked duration is
\* the sum of the normalized end - start, each computed without the other:
\* every table with the same dates and hours but other clock times gives
\* the same worked hours and balance hours, and every table with the same
\* dates and clock times but other hours gives the same worked duration and
\* balance duration.
C14_HoursAndDurationIndependent ==
    pc = "constructed" =>
        /\ self.workedhours = sum([i \in 1..Len(csv) |-> csv[i].Time], 0)
        /\ \A t \in SameDatesAndHours(csv) :
               LET other == Totals(t, call.year, calendar, self.vacdays)
               IN  /\ other.workedhours = self.workedhours
                   /\ other.balance = self.balance
        /\ \A t \in SameDatesAndClocks(csv) :
               LET other == Totals(t, call.year, calendar, self.vacdays)
               IN  /\ other.workedtimes = self.workedtimes
                   /\ other.timedifference = self.timedifference

\* An instance has been constructed from a table for which a table with the
\* same dates and hours has another worked duration, and a table with the
\* same dates and clock times has other worked hours.
C14_Witness ==
    /\ pc = "constructed"
    /\ \E t \in SameDatesAndHours(csv) :
           Totals(t, call.year, calendar, self.vacdays).workedtimes # self.workedtimes
    /\ \E t \in SameDatesAndClocks(csv) :
           Totals(t, call.year, calendar, self.vacdays).workedhours # self.workedhours

---------------------------------------------------------------------------
(* Properties of the work-day formatting (SpecFmt) *)

\* |td| of the call, and the seconds the printed H:MM:SS stand for.
AbsTd == IF call.td < 0 THEN -call.td ELSE call.td
ShownSeconds(str) == str.hours * 3600 + str.minutes * 60 + str.seconds

\* C15: the formatting prefixes '-' when td < 0 and '+' otherwise (also for
\* td = 0); with d the calendar days and s the seconds within the day of
\* |td| it prints 3 d + (s div 28800) work days and s mod 28800 seconds, so
\* the remainder is below 8 hours and work days x 8 h + remainder = |td|.
C15_WorkDayFormatting ==
    pc = "done" =>
        LET d == AbsTd \div 86400
            s == AbsTd % 86400
            str == ret.value.str
        IN  /\ ret.value.sign = (IF call.td < 0 THEN "-" ELSE "+")
            /\ call.td = 0 => ret.value.sign = "+"
            /\ str.days = 3 * d + (s \div 28800)
            /\ ShownSeconds(str) = s % 28800
            /\ ShownSeconds(str) < 8 * 3600
            /\ str.minutes \in 0..59 /\ str.seconds \in 0..59
            /\ str.days * 8 * 3600 + ShownSeconds(str) = AbsTd

\* A negative duration of more than a calendar day, not a whole number of
\* work days, has been formatted.
C15_Witness ==
    /\ pc = "done"
    /\ call.td < -86400
    /\ ret.value.sign = "-"
    /\ ret.value.str.days > 3
    /\ ret.value.str.seconds > 0

\* C16 (as the formatting does it): a duration of +17 hours is printed as
\* '+', 2 work days and 1:00:00, since 17 h = 2 x 8 h + 1 h.
C16_SeventeenHoursTwoWorkDays ==
    (pc = "done" /\ call.td = 17 * 3600) =>
        /\ ret.value.sign = "+"
        /\ ret.value.str = [days |-> 2, hours |-> 1, minutes |-> 0, seconds |-> 0]

\* +17 hours has been formatted.
C16_Witness ==
    /\ pc = "done" /\ call.td = 17 * 3600
    /\ ret.value.str.days = 2

\* C16 as stated: a duration of +17 hours is printed as 1 work day plus
\* 1:00:00.
C16_SeventeenHoursOneWorkDay ==
    (pc = "done" /\ call.td = 17 * 3600) =>
        /\ ret.value.sign = "+"
        /\ ret.value.str = [days |-> 1, hours |-> 1, minutes |-> 0, seconds |-> 0]

---------------------------------------------------------------------------
(* Properties of the construction *)

\* C17: constructing the balance from an existing session file with no
\* rows and zero leave succeeds, with worked hours 0 and balance hours equal
\* to minus the demanded hours.
C17_EmptyTableConstructs ==
    (/\ csv = <<>>
     /\ call.off = IntSource(0)
     /\ filepath(call.file, call.dir, FALSE) # FileNotFound) =>
        /\ pc # "raised"
        /\ pc = "constructed" =>
               /\ self.workedhours = 0
               /\ self.balance = -self.workinghours

---------------------------------------------------------------------------
(* Properties of the operations on a constructed instance (SpecPublic) *)

\* A step in which an assignment to a property has been carried out.
SetStep ==
    /\ pc \in {"constructed", "loaded"}
    /\ ret'.fn \in {"Kimai.setter", "TimeLog.setter"}
    /\ ret' # ret \/ log' # log

\* C18: every assignment to an exposed value is rejected with a diagnostic
\* and changes nothing: it raises no error, and every exposed value reads
\* afterwards as it did before.
C18_SettersAreNoOps ==
    [][SetStep =>
           /\ self' = self
           /\ ret' = [fn |-> ret'.fn, value |-> None]
           /\ log' = Append(log, log'[Len(log')])
           /\ log'[Len(log')].msg = "Kimai values cannot be changed."]_vars

\* C19: the instance is a snapshot fixed at construction: whatever public
\* operations have run since the constructor returned, workdays +
\* vacationdays + weekenddays + holidays is the number of calendar days of
\* the period and workinghours is 8 x workdays.
C19_SnapshotAfterConstruction ==
    pc = "constructed" =>
        /\ self.workdays + self.vacdays + self.weekenddays + self.holidays
               = CalendarDays(self.period.start, self.period.end)
        /\ self.workinghours = 8 * self.workdays

\* The session file named in the constructor call does not exist.
MissingSessionFile ==
    /\ "caller" \in DOMAIN call => call.caller = "__init__"
    /\ "file" \in DOMAIN call
    /\ filepath(call.file, call.dir, FALSE) = FileNotFound

\* C20: when the session file does not exist, loading is fatal: an error
\* diagnostic is emitted, the run ends with a non-zero exit status or the
\* FileNotFoundError reaches the caller, and no period, session data or
\* balance is produced.
C20_MissingSessionFileIsFatal ==
    (MissingSessionFile /\ pc \notin {"read_kimai", "TimeLog.read_kimai"}) =>
        /\ pc \in {"raised", "exited"}
        /\ \E i \in 1..Len(log) : log[i].level = "ERROR"
        /\ \/ ret.fn = "sys.exit" /\ ret.status # 0
           \/ "raised" \in DOMAIN ret /\ ret.raised = FileNotFound
        /\ self.period = Unset
        /\ "data" \in DOMAIN self => self.data = Unset
        /\ "balance" \in DOMAIN self => self.balance = Unset

---------------------------------------------------------------------------
(* Properties of the leave count of a leave file *)

\* What a row contributes by itself: a single date 1 if it lies in the
\* period, a range its work days of the period.
RowContribution(dates) ==
    IF Len(dates) = 1
    THEN IF LeavePeriod.start <= dates[1] /\ dates[1] <= LeavePeriod.end THEN 1 ELSE 0
    ELSE Cardinality({d \in dates[1]..dates[2] : IsWorkDayOfPeriod(d)})

\* C21: the leave count of a leave file is the plain sum of what each row
\* contributes by itself: every row adds its own contribution whatever was
\* counted before, the count is never negative, the count of two rows is
\* the same in either order, and a row repeated is counted again (nothing
\* is de-duplicated).
C21_LeaveCountIsPlainSum ==
    [][RowStep =>
           /\ LeaveCount' = LeaveCount + RowContribution(frame'.data)
           /\ LeaveCount >= 0 /\ LeaveCount' >= 0
           /\ frame.index = 0 => LeaveCount = 0
           /\ frame.index = 1 =>
                  /\ LeaveCount' = RowContribution(frame.data)
                                       + RowContribution(frame'.data)
                  /\ frame'.data = frame.data => LeaveCount' = 2 * LeaveCount]_vars

\* Two rows have been counted in a period made of work days only, and the
\* count exceeds the work days of the period: a work day has been counted
\* twice.
C21_Witness ==
    /\ InRows /\ frame.index = 2
    /\ LeavePeriod.start <= LeavePeriod.end
    /\ \A d \in LeavePeriod.start..LeavePeriod.end : IsWorkDayOfPeriod(d)
    /\ LeaveCount > LeavePeriod.end - LeavePeriod.start + 1

---------------------------------------------------------------------------
(* workcal.py against main.Kimai (SpecRefine) *)

\* The day classifier has returned; the leave resolver has been called.
WorkDaysReturned == ret.fn \in {"workcal.work_days", "Kimai.work_days"}
LeaveCalled == "off" \in DOMAIN call

\* The leave source names a file that exists, which the resolver reads.
IsFileRead == ~is_int(call.off) /\ filepath(call.off.name, call.dir, FALSE) # FileNotFound

\* C22: workcal.py and the Kimai class agree.  work_days with restrict = P
\* returns the triple of Kimai.work_days with restrict_period=True on an
\* instance of period P, and with the default restrict period the triple of
\* Kimai.work_days with restrict_period=False; off_days returns the (leave
\* count, origin) that Kimai.vacation_days stores: for an integer, for a
\* file that does not exist, and row by row for a file that is read.
C22_WorkcalAgreesWithKimai ==
    /\ [](WorkDaysReturned =>
              /\ ret.value = work_days(call.start, call.end, calendar, call.vacation,
                                       IF call.restricted THEN call.restrict
                                       ELSE DefaultPeriod)
              /\ ret.value = Kimai_work_days(call.restrict, calendar, call.start,
                                             call.end, call.vacation, call.restricted))
    /\ []((LeaveCalled /\ LeaveReturned) =>
              /\ is_int(call.off) => LeaveResult = <<call.off.n, None>>
              /\ MissingLeaveFile => LeaveResult = <<0, None>>
              /\ IsFileRead =>
                     LeaveResult[2] = filepath(call.off.name, call.dir, FALSE))
    /\ []((LeaveCalled /\ InRows) =>
              (IF self = NoInstance THEN frame.off_file ELSE self.vacfile)
                  = filepath(call.off.name, call.dir, FALSE))
    /\ [][RowStep =>
              /\ LeaveCount' - LeaveCount
                     = off_days_row(frame'.data, calendar, LeavePeriod)
              /\ LeaveCount' - LeaveCount
                     = vacation_days_row(frame'.data, calendar, LeavePeriod)]_vars
    /\ [][(InRows /\ ~InRows') => LeaveResult'[1] = LeaveCount]_vars

\* Kimai.work_days has returned for a range that starts before the period
\* of the instance, with work days counted, as workcal.work_days returns
\* them for that restrict period.
C22_Witness ==
    /\ ret.fn = "Kimai.work_days" /\ call.restricted
    /\ call.start < call.restrict.start /\ call.restrict.start < call.end
    /\ ret.value[1] + call.vacation > 0
    /\ ret.value = work_days(call.start, call.end, calendar, call.vacation, call.restrict)

===========================================================================
